---- MODULE Spec2Model ----
(***************************************************************************)
(* Model of the paper-to-podcast orchestrators:                            *)
(*   main.py             main_workflow (arXiv candidates)                  *)
(*   upload_processor.py process_pending_uploads / process_single_upload   *)
(*   podcast_generater.py process_paper (the staged pipeline)              *)
(*   services/supabase_service.py  the persistence calls                   *)
(* The database, the object storage and the three generation providers are *)
(* the environment: every call to them either returns or raises, chosen    *)
(* nondeterministically.  A call that raises has changed nothing.          *)
(***************************************************************************)
EXTENDS Integers, Sequences, FiniteSets, TLC

\* ------------------------------------------------------------------ bounds
NumPapers  == 2      \* distinct arXiv identifiers the search can return
MaxResults == 2      \* longest candidate list of one search
NumUploads == 2      \* rows of pending_uploads
MaxCount   == 2      \* largest max_count handed to process_pending_uploads
MaxRows    == 2      \* rows of papers one arxiv_id may reach before inserts stop
MaxPcm     == 3      \* longest raw PCM byte string handed to the WAV packaging
IdLen      == 9      \* characters of a submission id

ArxivIds  == 1..NumPapers
UploadIds == 1..NumUploads      \* numbered in created_at order, oldest first

NULL     == "NULL"              \* Python None / SQL NULL
ErrTexts == {"", "err"}         \* str(e) of an exception raised by the environment
Title    == "T"

VARIABLES
    papers,           \* table papers: arxiv_id -> number of rows carrying it
    upload_papers,    \* rows of papers inserted for a submission: upload id -> number
    storage,          \* the audio bucket: object path -> its bytes, or NULL
    pending_uploads,  \* table pending_uploads: id -> the columns of its row
    statusWrites,     \* id -> every status written to the row, in order (history)
    run,              \* "none" | "main" | "upload": the entry point last started
    pc,               \* position inside the running entry point
    cands,            \* latest_papers of the current main_workflow run
    log,              \* outcome of each candidate the loop has reached (history)
    doc,              \* what happened to the candidate in hand (history)
    page,             \* pending_uploads list fetched by the current batch
    ulog,             \* return value for each submission the batch has reached (history)
    udoc,             \* what happened to the submission in hand (history)
    results,          \* the statistics dict of process_pending_uploads
    max_count,        \* the max_count the current batch was called with
    workers,          \* processes running process_pending_uploads side by side
    svc,              \* the last calls made on the storage service (history)
    client,           \* the Supabase client of the current run: "none" | "ready" | "failed"
    wav,              \* inputs and outputs of the calls of convert_pcm_to_wav_in_memory
    db_records        \* the db_record dicts built for submissions: upload id and arxiv_id

vars == <<papers, storage, pending_uploads, statusWrites, run, pc, cands, log,
          doc, page, ulog, udoc, results, upload_papers, max_count, workers, svc, client,
          wav, db_records>>

dbVars     == <<papers, upload_papers, storage, pending_uploads, statusWrites>>
uploadVars == <<page, ulog, udoc, results, max_count>>
pureVars   == <<wav, db_records>>
auxVars    == <<workers, svc, client, pureVars>>
mainVars   == <<cands, log, doc>>

\* ------------------------------------------------------------ pure helpers

\* client.table("papers").select(..).eq("arxiv_id", id).execute().data
select_papers(tbl, id) ==
    [k \in 1..tbl[id] |-> [arxiv_id |-> id, title |-> Title]]

\* main.py check_paper_exists: len(response.data) > 0, False when the lookup raises
check_paper_exists_gt1(lookupOk, data) ==
    IF lookupOk THEN Len(data) > 1 ELSE FALSE

check_paper_exists_closed(lookupOk, data) ==
    IF lookupOk THEN Len(data) > 0 ELSE TRUE

check_paper_exists_never(lookupOk, data) == FALSE

check_paper_exists(lookupOk, data) ==
    IF lookupOk THEN Len(data) > 0 ELSE FALSE

\* SupabaseService.check_paper_exists: the first title, None when absent or on error
service_check_paper_exists(lookupOk, data) ==
    IF lookupOk
    THEN IF data # <<>> THEN data[1].title ELSE NULL
    ELSE NULL

\* A downloaded payload: its leading bytes as a list of 4-byte words, and its
\* length in bytes.  PdfMagic is b'%PDF'.
PdfMagic == "%PDF"

\* PaperPodcastGenerator.max_file_size
max_file_size == 100 * 1024 * 1024

Payloads ==
    {[words |-> <<>>, size |-> 0],
     [words |-> <<"<htm", "l>..">>, size |-> 8],
     [words |-> <<PdfMagic, "-1.7">>, size |-> 8],
     [words |-> <<PdfMagic, "-1.7">>, size |-> max_file_size + 4]}

NoPayload == [words |-> <<"none">>, size |-> 0]

\* bytes.startswith(b'%PDF')
StartsWithMagic(p) == Len(p.words) >= 1 /\ p.words[1] = PdfMagic

\* read_pdf_from_url: TRUE when it returns the payload, FALSE when it raises
\* (the request failed, or the payload does not start with the magic).
read_pdf_from_url_unchecked(fetchOk, p) == fetchOk

read_pdf_from_url(fetchOk, p) == fetchOk /\ StartsWithMagic(p)

\* download_file_from_storage: TRUE when it returns the payload, FALSE when it
\* raises; the bytes are returned as downloaded, without a look at them.
download_file_from_storage(fetchOk, p) == fetchOk

\* The str fields of PaperInfo (innovations is a list).
TextFields == {"title", "abstract", "field", "method", "results"}

\* response.text of the extraction call, as the JSON object it holds: every
\* field filled, the title an empty string, the abstract missing.
FullInfo == [f \in TextFields |-> "text"]

Responses ==
    {FullInfo,
     [FullInfo EXCEPT !["title"] = ""],
     [f \in TextFields \ {"abstract"} |-> "text"]}

NoInfo == [none |-> ""]

\* PaperInfo.model_validate_json: every field is required and must be a str;
\* nothing is asked of its length.
model_validate_json(r) == DOMAIN r = TextFields

\* extract_paper_info: TRUE when it returns the PaperInfo, FALSE when it raises
\* (the provider call failed, or the response did not validate).
extract_paper_info(callOk, r) == callOk /\ model_validate_json(r)

\* The steps of PaperPodcastGenerator.process_paper, in program order.
\* acquire = read_pdf_from_url, extract = extract_paper_info,
\* mkdir = create_output_folder, script = generate_podcast_script,
\* synth = generate_audio, save = save_json + write_text.
process_paper_steps == <<"acquire", "extract", "mkdir", "script", "synth", "save">>

Stages == {"acquire", "extract", "script", "synth"}

IndexOf(s) == CHOOSE k \in 1..Len(process_paper_steps) : process_paper_steps[k] = s

\* Where process_paper goes after step s returned (ok) or raised (~ok).
StepAfter_retrying(s, ok) ==
    IF ~ok THEN s
    ELSE IF IndexOf(s) < Len(process_paper_steps)
         THEN process_paper_steps[IndexOf(s) + 1]
         ELSE "persist"

StepAfter_ignoring(s, ok) ==
    IF IndexOf(s) < Len(process_paper_steps)
    THEN process_paper_steps[IndexOf(s) + 1]
    ELSE "persist"

StepAfter(s, ok) ==
    IF ~ok THEN "raise"
    ELSE IF IndexOf(s) < Len(process_paper_steps)
         THEN process_paper_steps[IndexOf(s) + 1]
         ELSE "persist"

\* The keys of the dict process_paper returns, and the fields of PaperInfo.
process_paper_result ==
    {"paper_info", "podcast_title", "script", "output_folder", "audio_path",
     "paper_info_path", "script_path"}

PaperInfo == {"title", "abstract", "field", "innovations", "method", "results"}

\* d[k] on a dict, o.k on a pydantic model: raises when k is absent.
LookupRaises_never(k, keys) == FALSE

LookupRaises(k, keys) == k \notin keys

\* The loop of main_workflow after the current candidate: `continue` goes to the
\* next candidate, or leaves the loop when it was the last.
AfterContinue_abort(i, n) == "done"

AfterContinue(i, n) == IF i < n THEN "gate" ELSE "done"


\* The parameters process_paper accepts besides self (podcast_generater.py 278);
\* a call with any other keyword raises TypeError before the body runs.
process_paper_params == {"pdf_url"}

CallRaisesTypeError(kw) == kw \notin process_paper_params

TypeErrorText == "process_paper() got an unexpected keyword argument 'pdf_data'"

Min(a, b) == IF a < b THEN a ELSE b

\* The members of S as a list in ascending order (order("created_at", desc=False)).
Ascending(S) ==
    CHOOSE s \in [1..Cardinality(S) -> S] : \A a, b \in 1..Cardinality(S) : a < b => s[a] < s[b]

Take(s, n) == SubSeq(s, 1, Min(n, Len(s)))

\* SupabaseService.get_pending_uploads: status = pending, oldest first, at most limit.
get_pending_uploads_any(tbl, limit) ==
    Take(Ascending(UploadIds), limit)

get_pending_uploads_requeueing(tbl, limit) ==
    Take(Ascending({u \in UploadIds : tbl[u].status \in {"pending", "processing"}}),
         limit)

get_pending_uploads_unlimited(tbl, limit) ==
    Ascending({u \in UploadIds : tbl[u].status = "pending"})

get_pending_uploads(tbl, limit) ==
    Take(Ascending({u \in UploadIds : tbl[u].status = "pending"}), limit)

\* SupabaseService.update_pending_upload_status, when the update goes through:
\* error_message is part of the update only when it is truthy.
\* (A variant whose update never reaches the row.)
update_pending_upload_status_dropped(tbl, u, status, error_message, extracted_info) ==
    tbl

\* (A variant that writes processing only onto a row that is still pending.)
update_pending_upload_status_if_pending(tbl, u, status, error_message, extracted_info) ==
    IF status = "processing" /\ tbl[u].status # "pending"
    THEN tbl
    ELSE [tbl EXCEPT ![u] = [@ EXCEPT !.status = status]]

\* extracted_info is a dict: <<>> stands for None or an empty dict.  The update
\* has no key for the identifier of a papers record: paper_id is never part of it.
update_pending_upload_status(tbl, u, status, error_message, extracted_info) ==
    [tbl EXCEPT ![u] = [status |-> status,
                        error_message |-> IF error_message \notin {NULL, ""}
                                          THEN error_message
                                          ELSE @.error_message,
                        extracted_title |-> IF DOMAIN extracted_info # {}
                                               /\ "title" \in DOMAIN extracted_info
                                            THEN extracted_info.title
                                            ELSE @.extracted_title,
                        paper_id |-> @.paper_id]]

\* ---------------------------------------------------------- WAV packaging

\* Raw PCM as a list of bytes; two byte values are enough to tell bytes apart.
PcmBytes == {0, 1}

PcmData == UNION {[1..n -> PcmBytes] : n \in 0..MaxPcm}

\* Valid parameters of wave.Wave_write; 1, 2, 24000 are the defaults.
ChannelCounts == {1, 2}
SampleWidths  == {1, 2}
FrameRates    == {8000, 24000}

\* The fields wave writes in front of the samples (its _write_header and
\* _patchheader): RIFF, 36 + data length, WAVE, fmt, 16, PCM = 1, channels,
\* frame rate, byte rate, block align, bits per sample, data, data length.
WavHeader(n, channels, sample_width, frame_rate) ==
    <<"RIFF", 36 + n, "WAVE", "fmt ", 16, 1, channels, frame_rate,
      channels * frame_rate * sample_width, channels * sample_width,
      sample_width * 8, "data", n>>

HeaderLen == Len(WavHeader(0, 1, 1, 8000))

\* (A variant that writes whole frames only.)
convert_pcm_to_wav_in_memory_whole_frames(pcm_data, channels, sample_width, frame_rate) ==
    LET n == Len(pcm_data) - (Len(pcm_data) % (channels * sample_width))
    IN WavHeader(n, channels, sample_width, frame_rate) \o SubSeq(pcm_data, 1, n)

\* convert_pcm_to_wav_in_memory: setnchannels, setsampwidth, setframerate,
\* writeframes(pcm_data), which writes the bytes as given, then getvalue().
convert_pcm_to_wav_in_memory(pcm_data, channels, sample_width, frame_rate) ==
    WavHeader(Len(pcm_data), channels, sample_width, frame_rate) \o pcm_data

\* Reading a container back: the declared parameters and the sample bytes.
WavChannels(w)    == w[7]
WavFrameRate(w)   == w[8]
WavSampleWidth(w) == w[11] \div 8
WavDataLen(w)     == w[HeaderLen]
WavSamples(w)     == SubSeq(w, HeaderLen + 1, Len(w))

\* ---------------------------------------------------------- object storage

\* Object paths: f"{arxiv_id}.wav" (main.py 148) and f"uploads/{upload_id}.wav"
\* (upload_processor.py 70).
StoragePaths ==
    {<<"", id>> : id \in ArxivIds} \cup {<<"uploads/", u>> : u \in UploadIds}

WavBytes == {"wav1", "wav2"}

\* get_public_url: a function of the bucket and the path.
get_public_url(path) == <<"public", "audios", path>>

StorageResult(ok, st, path) ==
    [ok |-> ok, storage |-> st, url |-> IF ok THEN get_public_url(path) ELSE <<>>]

\* storage.from_(bucket).update: replaces an object that exists, raises otherwise.
storage_update(st, path, data, envOk) ==
    IF envOk /\ st[path] # NULL
    THEN [ok |-> TRUE, storage |-> [st EXCEPT ![path] = data]]
    ELSE [ok |-> FALSE, storage |-> st]

\* storage.from_(bucket).upload: creates the object; with upsert it replaces an
\* object that exists, without upsert it raises when one exists.
storage_upload(st, path, data, upsert, envOk) ==
    IF envOk /\ (upsert \/ st[path] = NULL)
    THEN [ok |-> TRUE, storage |-> [st EXCEPT ![path] = data]]
    ELSE [ok |-> FALSE, storage |-> st]

\* main.py upload_to_storage: update, and upload when the update raised.
upload_to_storage_upload_only(st, path, data, envUpdate, envUpload) ==
    LET r == storage_upload(st, path, data, FALSE, envUpload)
    IN StorageResult(r.ok, r.storage, path)

upload_to_storage(st, path, data, envUpdate, envUpload) ==
    LET a == storage_update(st, path, data, envUpdate)
        b == storage_upload(st, path, data, FALSE, envUpload)
    IN IF a.ok THEN StorageResult(TRUE, a.storage, path)
       ELSE StorageResult(b.ok, b.storage, path)

\* SupabaseService.upload_audio: upload with upsert.
upload_audio_no_upsert(st, path, data, envOk) ==
    LET r == storage_upload(st, path, data, FALSE, envOk)
    IN StorageResult(r.ok, r.storage, path)

upload_audio(st, path, data, envOk) ==
    LET r == storage_upload(st, path, data, TRUE, envOk)
    IN StorageResult(r.ok, r.storage, path)

\* ------------------------------------------------------------------- state

Distinct(s) == \A a, b \in 1..Len(s) : a # b => s[a] # s[b]

CandLists ==
    {s \in UNION {[1..n -> ArxivIds] : n \in 0..MaxResults} : Distinct(s)}

NoResults == [total |-> 0, success |-> 0, failed |-> 0]

NoDoc ==
    [id |-> 0, index |-> 0, present |-> FALSE, lookupOk |-> TRUE, result |-> FALSE,
     calls |-> <<>>, failedAt |-> "none", outcome |-> "none", fault |-> FALSE,
     uploaded |-> FALSE, inserted |-> FALSE, audio_url |-> NULL,
     payload |-> NoPayload, info |-> NoInfo]

NoUDoc ==
    [id |-> 0, statusAtPickup |-> "none", updOk |-> FALSE, dlOk |-> FALSE,
     calls |-> <<>>, failedAt |-> "none", err |-> NULL, failedWritten |-> FALSE,
     inserted |-> FALSE, ret |-> "none", payload |-> NoPayload]

\* A submission as the front end created it.
NewUpload ==
    [status |-> "pending", error_message |-> NULL, extracted_title |-> NULL,
     paper_id |-> NULL]

\* No call made on the storage service yet.
NoPrev == [valid |-> FALSE, ok |-> FALSE, url |-> <<>>, fault |-> FALSE, before |-> FALSE]

NoCall ==
    [op |-> "none", path |-> <<"", 0>>, data |-> NULL, ok |-> FALSE, url |-> <<>>,
     fault |-> FALSE, before |-> FALSE, prev |-> NoPrev]

\* No packaging call made.
NoWav ==
    [pcm_data |-> <<>>, channels |-> 1, sample_width |-> 2, frame_rate |-> 24000,
     outs |-> <<>>]

\* Processes that run process_pending_uploads side by side, none started.
Workers == {"w1", "w2"}

NoWorker == [pc |-> "idle", page |-> <<>>, k |-> 0, err |-> NULL]

\* The papers table before the first run: one row for each identifier already
\* processed, none for the others.  Identifiers are interchangeable (the search can
\* return them in any order), so the processed ones are taken to be 1..k.
InitialPapers ==
    {[id \in ArxivIds |-> IF id <= k THEN 1 ELSE 0] : k \in 0..NumPapers}

InitProgram ==
    /\ papers \in InitialPapers
    /\ upload_papers = [u \in UploadIds |-> 0]
    /\ storage = [p \in StoragePaths |-> NULL]
    /\ pending_uploads = [u \in UploadIds |-> NewUpload]
    /\ max_count = 0
    /\ workers = [w \in Workers |-> NoWorker]
    /\ svc = NoCall
    /\ client = "none"
    /\ statusWrites = [u \in UploadIds |-> <<>>]
    /\ run = "none"
    /\ pc = "idle"
    /\ cands = <<>>
    /\ log = <<>>
    /\ doc = NoDoc
    /\ page = <<>>
    /\ ulog = <<>>
    /\ udoc = NoUDoc
    /\ results = NoResults

\* Before the first run: the tables and the bucket, and no function called.
Init ==
    /\ InitProgram
    /\ wav = NoWav
    /\ db_records = {}

\* --------------------------------------------------------- main_workflow

Cur == Len(log)

\* The candidate in hand is finished with outcome o: its place in log records it.
Finish(o) == [log EXCEPT ![Cur] = o]

\* Where a run goes after its constructors: on when they returned, to its end
\* when one raised (the outer except of main_workflow, the except of main()).
AfterInit_ignoring(ok, next) == next

AfterInit(ok, next) == IF ok THEN next ELSE "done"

\* main_workflow is started (the cron job runs it); runs never overlap.
StartMain ==
    /\ pc \in {"idle", "done"}
    /\ run' = "main"
    /\ pc' = "init"
    /\ cands' = <<>>
    /\ log' = <<>>
    /\ doc' = NoDoc
    /\ page' = <<>>
    /\ ulog' = <<>>
    /\ udoc' = NoUDoc
    /\ results' = NoResults
    /\ max_count' = 0
    /\ client' = "none"
    /\ UNCHANGED <<dbVars, workers, svc, pureVars>>

\* init_supabase_client() and PaperPodcastGenerator(): either may raise, which
\* the outer except of main_workflow catches, ending the run.
MainInit ==
    /\ run = "main" /\ pc = "init"
    /\ \E okClient, okGen \in BOOLEAN :
          /\ client' = IF okClient THEN "ready" ELSE "failed"
          /\ pc' = AfterInit(okClient /\ okGen, "search")
    /\ UNCHANGED <<workers, svc, pureVars, dbVars, run, mainVars, uploadVars>>

\* search_latest_ai_paper: a list of candidates, or an exception (outer except).
MainSearch ==
    /\ run = "main" /\ pc = "search"
    /\ \E ok \in BOOLEAN, c \in CandLists :
          /\ cands' = IF ok THEN c ELSE <<>>
          /\ pc' = IF ok /\ c # <<>> THEN "gate" ELSE "done"
    /\ UNCHANGED <<auxVars, dbVars, run, log, doc, uploadVars>>

\* The head of the for loop: the deduplication gate for the next candidate.
Gate ==
    /\ run = "main" /\ pc = "gate"
    /\ LET i  == Cur + 1
           id == cands[i]
       IN \E lookupOk \in BOOLEAN :
            LET res == check_paper_exists(lookupOk, select_papers(papers, id))
            IN /\ doc' = [id |-> id, index |-> i, present |-> papers[id] > 0,
                          lookupOk |-> lookupOk, result |-> res,
                          calls |-> <<>>, failedAt |-> "none",
                          outcome |-> IF res THEN "skipped" ELSE "running",
                          fault |-> ~lookupOk,
                          uploaded |-> FALSE, inserted |-> FALSE,
                          audio_url |-> NULL,
                          payload |-> NoPayload, info |-> NoInfo]
               /\ log' = Append(log, IF res THEN "skipped" ELSE "running")
               /\ pc' = IF res THEN AfterContinue(i, Len(cands)) ELSE "acquire"
    /\ UNCHANGED <<auxVars, dbVars, run, cands, uploadVars>>

\* One step of process_paper for the current candidate; a step that raises ends
\* process_paper ("raise"), and main_workflow's except continues the loop.
StepWith(s, ok, p, info) ==
    /\ run = "main" /\ pc = s
    /\ LET nxt == StepAfter(s, ok)
       IN /\ doc' = [doc EXCEPT !.calls = Append(@, s),
                                !.payload = p,
                                !.info = info,
                                !.failedAt = IF ok THEN @ ELSE s,
                                !.fault = @ \/ ~ok,
                                !.outcome = IF nxt = "raise" THEN "failed" ELSE @]
          /\ log' = IF nxt = "raise" THEN Finish("failed") ELSE log
          /\ pc' = IF nxt = "raise" THEN AfterContinue(Cur, Len(cands)) ELSE nxt
    /\ UNCHANGED <<auxVars, dbVars, run, cands, uploadVars>>

Step(s, ok) == StepWith(s, ok, doc.payload, doc.info)

\* read_pdf_from_url: the request, then the look at the first bytes.
Acquire ==
    \E fetchOk \in BOOLEAN, p \in Payloads :
        StepWith("acquire", read_pdf_from_url(fetchOk, p),
                 IF fetchOk THEN p ELSE NoPayload, NoInfo)

\* extract_paper_info(pdf_data): the provider call, then the validation of its
\* response.  pdf_data is not used after this call; doc.payload is the payload
\* acquisition last received, until extraction has taken it.
Extract ==
    \E callOk \in BOOLEAN, r \in Responses :
        LET ok == extract_paper_info(callOk, r)
        IN StepWith("extract", ok, NoPayload, IF ok THEN r ELSE NoInfo)

CreateOutputFolder == \E ok \in BOOLEAN : Step("mkdir", ok)

\* generate_podcast_script(paper_info): it asks nothing of the fields.  doc.info
\* is the PaperInfo extraction returned, until script generation has taken it.
Script == \E ok \in BOOLEAN : StepWith("script", ok, doc.payload, NoInfo)

\* generate_audio: the speech request, then save_wave_file on the local disk.
Synthesize == \E okTts, okDisk \in BOOLEAN : Step("synth", okTts /\ okDisk)

SaveOutputs == \E ok \in BOOLEAN : Step("save", ok)

\* What lines 120-183 of main_workflow did when they were left: whether an
\* external call or a local write failed (fault), whether upload_to_storage
\* returned (uploaded), the audio_url of the db_record built (NULL when none was
\* built), whether insert_paper_to_db returned (inserted), and whether the break
\* of line 183 was reached (done).
Left(fault, uploaded, audio_url, inserted) ==
    [fault |-> fault, uploaded |-> uploaded, audio_url |-> audio_url,
     inserted |-> inserted, done |-> inserted]

\* The same statements with the insert moved in front of the packaging.
main_workflow_tail_insert_first(okLocal, okWav, up, okIns) ==
    IF LookupRaises("paper_info", process_paper_result) THEN Left(FALSE, FALSE, NULL, FALSE)
    ELSE IF ~okLocal THEN Left(TRUE, FALSE, NULL, FALSE)
    ELSE IF ~okIns THEN Left(TRUE, FALSE, NULL, FALSE)
    ELSE [Left(FALSE, FALSE, NULL, TRUE) EXCEPT !.done = FALSE]

\* main.py 120-174 in the order of the code: paper_info (120), the local folder
\* and dumps (123-134), audio_data and the packaging (138), the local wav
\* (141-143), upload_to_storage (150), the record with the URL it returned
\* (154-172), insert_paper_to_db (174).  up is what upload_to_storage does when
\* it is called.
main_workflow_tail(okLocal, okWav, up, okIns) ==
    IF LookupRaises("paper_info", process_paper_result) THEN Left(FALSE, FALSE, NULL, FALSE)
    ELSE IF ~okLocal THEN Left(TRUE, FALSE, NULL, FALSE)
    ELSE IF LookupRaises("audio_data", process_paper_result) THEN Left(FALSE, FALSE, NULL, FALSE)
    ELSE IF ~okWav \/ ~up.ok THEN Left(TRUE, FALSE, NULL, FALSE)
    ELSE IF LookupRaises("tags", PaperInfo) THEN Left(FALSE, TRUE, NULL, FALSE)
    ELSE IF ~okIns THEN Left(TRUE, TRUE, up.url, FALSE)
    ELSE Left(FALSE, TRUE, up.url, TRUE)

\* main.py 120-183: what main_workflow does with the value process_paper
\* returned; the except (177-180) continues the loop, the break (183) ends it.
MainPersist ==
    /\ run = "main" /\ pc = "persist"
    /\ \E okLocal, okWav, okUp, okIns \in BOOLEAN :
          LET path == <<"", doc.id>>
              up   == upload_to_storage(storage, path, "wav1", okUp, okUp)
              r    == main_workflow_tail(okLocal, okWav, up,
                                         okIns /\ papers[doc.id] < MaxRows)
              o    == IF r.done THEN "success" ELSE "failed"
          IN /\ doc' = [doc EXCEPT !.outcome = o, !.fault = @ \/ r.fault,
                                    !.uploaded = r.uploaded, !.inserted = r.inserted,
                                    !.audio_url = r.audio_url]
             /\ log' = Finish(o)
             /\ pc' = IF r.done THEN "done" ELSE AfterContinue(Cur, Len(cands))
             /\ storage' = IF r.uploaded THEN up.storage ELSE storage
             /\ papers' = IF r.inserted THEN [papers EXCEPT ![doc.id] = @ + 1]
                           ELSE papers
    /\ UNCHANGED <<auxVars, upload_papers, pending_uploads, statusWrites, run, cands, uploadVars>>

\* ------------------------------------------- upload_processor.py: the batch

UCur == Len(ulog)

\* After process_single_upload returned: the next record of the page, or the end.
AfterUpload(k, n) == IF k < n THEN "set_processing" ELSE "done"

\* process_pending_uploads 136-140: the value process_single_upload returned is
\* counted as a success or as a failure.
count_result_failures_dropped(res, success) ==
    IF success THEN [res EXCEPT !.success = @ + 1] ELSE res

count_result(res, success) ==
    IF success THEN [res EXCEPT !.success = @ + 1]
    ELSE [res EXCEPT !.failed = @ + 1]

\* upload_processor.main is started; runs never overlap.
StartUpload ==
    /\ pc \in {"idle", "done"}
    /\ run' = "upload"
    /\ pc' = "uinit"
    /\ cands' = <<>>
    /\ log' = <<>>
    /\ page' = <<>>
    /\ doc' = NoDoc
    /\ ulog' = <<>>
    /\ udoc' = NoUDoc
    /\ results' = NoResults
    /\ max_count' = 0
    /\ client' = "none"
    /\ UNCHANGED <<dbVars, workers, svc, pureVars>>

\* UploadProcessor(): create_client or the generator's constructor may raise,
\* which main()'s except catches, ending the run.
UploadInit ==
    /\ run = "upload" /\ pc = "uinit"
    /\ \E okClient, okGen \in BOOLEAN :
          /\ client' = IF okClient THEN "ready" ELSE "failed"
          /\ pc' = AfterInit(okClient /\ okGen, "fetch")
    /\ UNCHANGED <<workers, svc, pureVars, dbVars, run, mainVars, uploadVars>>

\* process_pending_uploads 124-133: fetch the page; a failed fetch is an empty page.
Fetch ==
    /\ run = "upload" /\ pc = "fetch"
    /\ \E ok \in BOOLEAN, mc \in 1..MaxCount :
          LET got == IF ok THEN get_pending_uploads(pending_uploads, mc)
                     ELSE <<>>
          IN /\ max_count' = mc
             /\ page' = got
             /\ results' = [total |-> Len(got), success |-> 0, failed |-> 0]
             /\ pc' = IF got = <<>> THEN "done" ELSE "set_processing"
    /\ UNCHANGED <<auxVars, dbVars, run, mainVars, ulog, udoc>>

\* process_single_upload 44-49: the status update to processing, inside the try.
SetProcessing ==
    /\ run = "upload" /\ pc = "set_processing"
    /\ LET u == page[UCur + 1]
       IN \E ok \in BOOLEAN, msg \in ErrTexts :
            /\ udoc' = [id |-> u, statusAtPickup |-> pending_uploads[u].status,
                         updOk |-> ok, dlOk |-> FALSE, calls |-> <<>>,
                         failedAt |-> "none", err |-> IF ok THEN NULL ELSE msg,
                         failedWritten |-> FALSE, inserted |-> FALSE, ret |-> "none",
                         payload |-> NoPayload]
            /\ ulog' = Append(ulog, "none")
            /\ IF ok
               THEN /\ pending_uploads' =
                         update_pending_upload_status(pending_uploads, u, "processing", NULL, <<>>)
                    /\ statusWrites' = [statusWrites EXCEPT ![u] = Append(@, "processing")]
                    /\ pc' = "download"
               ELSE /\ UNCHANGED <<pending_uploads, statusWrites>>
                    /\ pc' = "handler"
    /\ UNCHANGED <<auxVars, papers, upload_papers, storage, run, mainVars, page, results, max_count>>

\* process_single_upload 51-53: download_file_from_storage, which re-raises.
Download ==
    /\ run = "upload" /\ pc = "download"
    /\ \E fetchOk \in BOOLEAN, p \in Payloads, msg \in ErrTexts :
          LET ok == download_file_from_storage(fetchOk, p)
          IN /\ udoc' = [udoc EXCEPT !.dlOk = ok, !.err = IF ok THEN @ ELSE msg,
                                     !.payload = IF ok THEN p ELSE @]
             /\ pc' = IF ok THEN "process_paper" ELSE "handler"
    /\ UNCHANGED <<auxVars, dbVars, run, mainVars, page, ulog, results, max_count>>

\* process_single_upload 55-57: process_paper(pdf_data=pdf_data).  The method
\* takes pdf_url only, so the call raises TypeError and no stage is entered.
\* udoc.payload is the payload downloaded, until this call has been made with it.
CallProcessPaper ==
    /\ run = "upload" /\ pc = "process_paper"
    /\ CallRaisesTypeError("pdf_data")
    /\ udoc' = [udoc EXCEPT !.err = TypeErrorText, !.payload = NoPayload]
    /\ pc' = "handler"
    /\ UNCHANGED <<auxVars, dbVars, run, mainVars, page, ulog, results, max_count>>

\* process_single_upload 99-112 and process_pending_uploads 136-140: the except
\* writes failed with str(e); an error of that update is logged and dropped; the
\* method returns False and the batch counts a failure.
Handler ==
    /\ run = "upload" /\ pc = "handler"
    /\ LET u == udoc.id
       IN \E ok \in BOOLEAN :
            /\ IF ok
               THEN /\ pending_uploads' =
                         update_pending_upload_status(pending_uploads, u, "failed", udoc.err, <<>>)
                    /\ statusWrites' = [statusWrites EXCEPT ![u] = Append(@, "failed")]
               ELSE UNCHANGED <<pending_uploads, statusWrites>>
            /\ udoc' = [udoc EXCEPT !.failedWritten = ok, !.ret = "False"]
    /\ ulog' = [ulog EXCEPT ![UCur] = "False"]
    /\ results' = count_result(results, FALSE)
    /\ pc' = AfterUpload(UCur, Len(page))
    /\ UNCHANGED <<auxVars, papers, upload_papers, storage, run, mainVars, page, max_count>>

NextMain ==
    \/ StartMain
    \/ MainInit
    \/ MainSearch
    \/ Gate
    \/ Acquire
    \/ Extract
    \/ CreateOutputFolder
    \/ Script
    \/ Synthesize
    \/ SaveOutputs
    \/ MainPersist

NextUpload ==
    \/ StartUpload
    \/ UploadInit
    \/ Fetch
    \/ SetProcessing
    \/ Download
    \/ CallProcessPaper
    \/ Handler

Next == NextMain \/ NextUpload

\* Any sequence of runs of the two entry points.
Spec == Init /\ [][Next]_vars

\* Runs of main_workflow only.
SpecMain == Init /\ [][NextMain]_vars

\* Runs of process_pending_uploads only.
SpecUpload == Init /\ [][NextUpload]_vars

\* ----------------- processes running process_pending_uploads side by side

\* The submission worker w has in hand.
WCur(w) == workers[w].page[workers[w].k + 1]

\* What a worker leaves alone.
WorkerUnchanged ==
    <<papers, upload_papers, storage, run, pc, mainVars, uploadVars, svc, client,
      pureVars>>

\* process_pending_uploads 124-133 in worker w.  A worker is one process
\* running upload_processor.main, which runs one batch and exits.  The workers
\* are interchangeable: w1 names the one whose fetch comes first.
WFetch(w) ==
    /\ workers[w].pc = "idle"
    /\ w = "w1" \/ workers["w1"].pc # "idle"
    /\ \E ok \in BOOLEAN, mc \in 1..MaxCount :
          LET got == IF ok THEN get_pending_uploads(pending_uploads, mc) ELSE <<>>
          IN workers' = [workers EXCEPT ![w] =
                           [pc |-> IF got = <<>> THEN "done" ELSE "set_processing",
                            page |-> got, k |-> 0, err |-> NULL]]
    /\ UNCHANGED <<WorkerUnchanged, pending_uploads, statusWrites>>

\* process_single_upload 44-49 in worker w.
WSetProcessing(w) ==
    /\ workers[w].pc = "set_processing"
    /\ \E ok \in BOOLEAN, msg \in ErrTexts :
          IF ok
          THEN /\ pending_uploads' =
                    update_pending_upload_status(pending_uploads, WCur(w),
                                                 "processing", NULL, <<>>)
               /\ statusWrites' = [statusWrites EXCEPT ![WCur(w)] = Append(@, "processing")]
               /\ workers' = [workers EXCEPT ![w].pc = "download"]
          ELSE /\ UNCHANGED <<pending_uploads, statusWrites>>
               /\ workers' = [workers EXCEPT ![w].pc = "handler", ![w].err = msg]
    /\ UNCHANGED WorkerUnchanged

\* process_single_upload 51-53 in worker w.
WDownload(w) ==
    /\ workers[w].pc = "download"
    /\ \E fetchOk \in BOOLEAN, p \in Payloads, msg \in ErrTexts :
          workers' = IF download_file_from_storage(fetchOk, p)
                     THEN [workers EXCEPT ![w].pc = "process_paper"]
                     ELSE [workers EXCEPT ![w].pc = "handler", ![w].err = msg]
    /\ UNCHANGED <<WorkerUnchanged, pending_uploads, statusWrites>>

\* process_single_upload 55-57 in worker w: the TypeError.
WCallProcessPaper(w) ==
    /\ workers[w].pc = "process_paper"
    /\ CallRaisesTypeError("pdf_data")
    /\ workers' = [workers EXCEPT ![w].pc = "handler", ![w].err = TypeErrorText]
    /\ UNCHANGED <<WorkerUnchanged, pending_uploads, statusWrites>>

\* process_single_upload 99-112 in worker w.
WHandler(w) ==
    /\ workers[w].pc = "handler"
    /\ \E ok \in BOOLEAN :
          IF ok
          THEN /\ pending_uploads' =
                    update_pending_upload_status(pending_uploads, WCur(w),
                                                 "failed", workers[w].err, <<>>)
               /\ statusWrites' = [statusWrites EXCEPT ![WCur(w)] = Append(@, "failed")]
          ELSE UNCHANGED <<pending_uploads, statusWrites>>
    /\ workers' = [workers EXCEPT ![w].k = @ + 1, ![w].err = NULL,
                                  ![w].pc = AfterUpload(workers[w].k + 1,
                                                        Len(workers[w].page))]
    /\ UNCHANGED WorkerUnchanged

NextWorkers ==
    \E w \in Workers :
        \/ WFetch(w)
        \/ WSetProcessing(w)
        \/ WDownload(w)
        \/ WCallProcessPaper(w)
        \/ WHandler(w)

\* Two processes running process_pending_uploads at the same time.
SpecWorkers == Init /\ [][NextWorkers]_vars

\* -------------------------------- the WAV packaging applied directly

\* Any raw PCM bytes and any valid parameters, no call made yet.
InitWav ==
    /\ InitProgram
    /\ wav \in [pcm_data : PcmData, channels : ChannelCounts,
                 sample_width : SampleWidths, frame_rate : FrameRates,
                 outs : {<<>>}]
    /\ db_records = {}

\* One call of convert_pcm_to_wav_in_memory (main.py 57-65 and
\* utils/audio_utils.py 6-23 have the same body) on the inputs drawn; the same
\* inputs are packaged twice.
ConvertPcmToWav ==
    /\ pc = "idle"
    /\ Len(wav.outs) < 2
    /\ wav' = [wav EXCEPT !.outs =
                  Append(@, convert_pcm_to_wav_in_memory(wav.pcm_data, wav.channels,
                                                         wav.sample_width,
                                                         wav.frame_rate))]
    /\ UNCHANGED <<dbVars, run, pc, mainVars, uploadVars, workers, svc, client,
                   db_records>>

NextWav == ConvertPcmToWav

SpecWav == InitWav /\ [][NextWav]_vars

\* ------------------------------------- the storage calls applied directly

\* The record of a call op(path, data) that returned r (ok) or raised (~ok);
\* prev is the call before it when that was the same call on the same bytes.
Called(op, path, data, r, fault) ==
    [op |-> op, path |-> path, data |-> data, ok |-> r.ok, url |-> r.url,
     fault |-> fault, before |-> storage[path] # NULL,
     prev |-> IF svc.op = op /\ svc.path = path /\ svc.data = data
              THEN [valid |-> TRUE, ok |-> svc.ok, url |-> svc.url,
                    fault |-> svc.fault, before |-> svc.before]
              ELSE NoPrev]

\* SupabaseService.upload_audio(audio_data, f"uploads/{upload_id}.wav").
UploadAudio ==
    /\ pc = "idle"
    /\ \E u \in UploadIds, data \in WavBytes, envOk \in BOOLEAN :
          LET path == <<"uploads/", u>>
              r    == upload_audio(storage, path, data, envOk)
          IN /\ storage' = r.storage
             /\ svc' = Called("upload_audio", path, data, r, ~envOk)
    /\ UNCHANGED <<papers, upload_papers, pending_uploads, statusWrites, run, pc,
                   mainVars, uploadVars, workers, client, pureVars>>

\* main.py upload_to_storage(supabase, wav_data, f"{arxiv_id}.wav").
UploadToStorage ==
    /\ pc = "idle"
    /\ \E id \in ArxivIds, data \in WavBytes, envUpdate, envUpload \in BOOLEAN :
          LET path == <<"", id>>
              r    == upload_to_storage(storage, path, data, envUpdate, envUpload)
          IN /\ storage' = r.storage
             /\ svc' = Called("upload_to_storage", path, data, r,
                              ~envUpdate \/ ~envUpload)
    /\ UNCHANGED <<papers, upload_papers, pending_uploads, statusWrites, run, pc,
                   mainVars, uploadVars, workers, client, pureVars>>

NextStorage == UploadAudio \/ UploadToStorage

\* The two upload functions called any number of times on an empty bucket.
SpecStorage == Init /\ [][NextStorage]_vars

\* ------------------------- the db_record of a submission built directly

\* Submission ids are the strings of pending_uploads.id (UUIDs in text form):
\* here strings of IdLen characters, longer than the slice taken of them.
IdChars == {"0", "f"}

SubmissionIds == [1..IdLen -> IdChars]

\* upload_processor.py 90: f"upload_{upload_id[:8]}".
db_record_arxiv_id(upload_id) == <<"upload_">> \o Take(upload_id, 8)

\* process_single_upload 74-91 for one submission: the db_record it builds.
BuildDbRecord ==
    /\ pc = "idle"
    /\ Cardinality(db_records) < 2
    /\ \E upload_id \in SubmissionIds :
          db_records' = db_records \cup
              {[upload_id |-> upload_id, arxiv_id |-> db_record_arxiv_id(upload_id)]}
    /\ UNCHANGED <<dbVars, run, pc, mainVars, uploadVars, workers, svc, client, wav>>

NextRecord == BuildDbRecord

\* The db_record built for two submissions.
SpecRecord == Init /\ [][NextRecord]_vars

\* ------------------------- insert_paper_from_upload applied directly

\* Submissions as a batch can leave them before line 94 of process_single_upload:
\* pending, or set to processing.
InitService ==
    /\ papers \in InitialPapers
    /\ upload_papers = [u \in UploadIds |-> 0]
    /\ storage = [p \in StoragePaths |-> NULL]
    /\ pending_uploads \in
          [UploadIds -> {NewUpload, [NewUpload EXCEPT !.status = "processing"]}]
    /\ statusWrites = [u \in UploadIds |-> <<>>]
    /\ run = "none" /\ pc = "idle"
    /\ cands = <<>> /\ log = <<>> /\ doc = NoDoc
    /\ page = <<>> /\ ulog = <<>> /\ udoc = NoUDoc
    /\ results = NoResults /\ max_count = 0
    /\ workers = [w \in Workers |-> NoWorker] /\ svc = NoCall
    /\ client = "none"
    /\ wav = NoWav
    /\ db_records = {}

\* SupabaseService.insert_paper_from_upload(paper_data, upload_id) for a
\* submission that is processing: the insert (an empty response raises), the
\* update to completed with the extracted fields; on any exception the update
\* to failed with str(e), whose own failure is dropped, and the re-raise.
InsertPaperFromUpload ==
    /\ pc = "idle"
    /\ \E u \in UploadIds, okIns, okDone, okFail \in BOOLEAN, msg \in ErrTexts :
          /\ pending_uploads[u].status = "processing"
          /\ okIns => upload_papers[u] < MaxRows
          /\ upload_papers' = [upload_papers EXCEPT ![u] = IF okIns THEN @ + 1 ELSE @]
          /\ IF okIns /\ okDone
             THEN /\ pending_uploads' =
                       update_pending_upload_status(pending_uploads, u, "completed",
                                                    NULL, [title |-> Title])
                  /\ statusWrites' = [statusWrites EXCEPT ![u] = Append(@, "completed")]
             ELSE IF okFail
             THEN /\ pending_uploads' =
                       update_pending_upload_status(pending_uploads, u, "failed",
                                                    msg, <<>>)
                  /\ statusWrites' = [statusWrites EXCEPT ![u] = Append(@, "failed")]
             ELSE UNCHANGED <<pending_uploads, statusWrites>>
          /\ udoc' = [NoUDoc EXCEPT !.id = u, !.statusAtPickup = "processing",
                                    !.inserted = okIns,
                                    !.err = IF okIns /\ okDone THEN NULL ELSE msg,
                                    !.failedWritten = ~(okIns /\ okDone) /\ okFail,
                                    !.ret = IF okIns /\ okDone THEN "record" ELSE "raised"]
    /\ UNCHANGED <<papers, storage, run, pc, mainVars, page, ulog, results, max_count,
                   auxVars>>

NextService == InsertPaperFromUpload

\* insert_paper_from_upload called any number of times on submissions that are
\* processing.
SpecService == InitService /\ [][NextService]_vars

\* ------------------------------------------------------------------ claims

Range(s) == {s[k] : k \in 1..Len(s)}

IsStage(s) == s \in Stages

StageOrder == <<"acquire", "extract", "script", "synth">>

IsPrefix(s, t) == Len(s) <= Len(t) /\ \A k \in 1..Len(s) : s[k] = t[k]

Terminal == {"completed", "failed"}

Handled == doc.outcome # "none"

C2_PendingOnlyToProcessing ==
    [][\A u \in UploadIds :
          pending_uploads[u].status = "pending"
             => pending_uploads'[u].status \in {"pending", "processing"}]_vars

C4_GateResult ==
    /\ (Handled /\ doc.lookupOk) => (doc.result <=> doc.present)
    /\ \A d \in ArxivIds :
          /\ check_paper_exists(TRUE, select_papers(papers, d)) <=> papers[d] > 0
          /\ service_check_paper_exists(TRUE, select_papers(papers, d)) # NULL
                <=> papers[d] > 0

\* C4 witness: a successful lookup of a persisted candidate answered "exists".
C4_Witness == Handled /\ doc.lookupOk /\ doc.present /\ doc.result

\* C5: when the lookup raises, the candidate is treated as new and the pipeline
\* is run for it: it is not skipped and the run does not end there.
C5_FailOpen ==
    (Handled /\ ~doc.lookupOk)
       => /\ ~doc.result
          /\ doc.outcome # "skipped"
          /\ doc.calls = <<>> => pc = "acquire"
          /\ doc.calls # <<>> => doc.calls[1] = "acquire"

\* C5 witness: the lookup of a persisted candidate raised and acquisition ran.
C5_Witness == Handled /\ ~doc.lookupOk /\ doc.present /\ doc.calls # <<>>

C7_PresentNeverProcessed ==
    (Handled /\ doc.present)
       => /\ doc.outcome = "skipped"
          /\ doc.calls = <<>> /\ ~doc.uploaded /\ ~doc.inserted

\* C7 amended: a candidate whose identifier is present in papers and whose
\* lookup succeeds is skipped at the gate: no stage, no storage upload and no
\* insert happens for it.
C7_PresentSkippedWhenLookupOk ==
    (Handled /\ doc.present /\ doc.lookupOk)
       => /\ doc.outcome = "skipped"
          /\ doc.calls = <<>> /\ ~doc.uploaded /\ ~doc.inserted
          /\ pc \in {"gate", "done"}

\* C7 witness: a persisted candidate was skipped and the loop went on to the next.
C7_Witness ==
    /\ Handled /\ doc.present /\ doc.lookupOk /\ doc.outcome = "skipped"
    /\ pc = "gate" /\ doc.index < Len(cands)

\* C8: scenario A: a candidate that is not in papers and for which every call
\* succeeded has had all four stages run and has exactly one papers row.
C8_ScenarioA ==
    (run = "main" /\ doc.outcome \in {"failed", "success"}
        /\ ~doc.present /\ ~doc.fault)
       => /\ Stages \subseteq Range(doc.calls)
          /\ doc.inserted
          /\ papers[doc.id] = 1

\* C9: an error for one candidate or submission does not end the run: the loop
\* of main_workflow goes on to the next candidate, the batch to the next
\* submission, and a run ends only when its list is exhausted (or, for
\* main_workflow, after a candidate succeeded).
C9_FailureIsolation ==
    /\ (run = "main" /\ doc.outcome = "failed" /\ doc.index < Len(cands))
          => pc = "gate"
    /\ (run = "main" /\ pc = "done" /\ cands # <<>>)
          => (Len(log) = Len(cands) \/ log[Len(log)] = "success")
    /\ (run = "upload" /\ udoc.ret = "False" /\ Len(ulog) < Len(page))
          => pc = "set_processing"
    /\ (run = "upload" /\ pc = "done" /\ page # <<>>)
          => (Len(ulog) = Len(page) /\ \A k \in 1..Len(ulog) : ulog[k] # "none")

\* C9 witness: after a batch in which every submission failed, a main_workflow
\* run whose first candidate failed went on to a second candidate.
C9_Witness ==
    /\ run = "main" /\ pc = "done"
    /\ Len(log) = 2 /\ log[1] = "failed" /\ log[2] = "failed"
    /\ \A u \in UploadIds : pending_uploads[u].status = "failed"

\* C10: for one document the stages run in the order acquire, extract, script,
\* synthesize, each after the one before returned, and none after one failed.
C10_StageOrder ==
    /\ IsPrefix(SelectSeq(doc.calls, IsStage), StageOrder)
    /\ doc.failedAt # "none"
          => /\ doc.calls[Len(doc.calls)] = doc.failedAt
             /\ doc.outcome = "failed"
             /\ pc \in {"gate", "done"}
    /\ pc \in Range(process_paper_steps)
          => /\ doc.failedAt = "none"
             /\ doc.calls = SubSeq(process_paper_steps, 1, IndexOf(pc) - 1)

\* C10 witness: script generation failed after acquisition and extraction
\* returned, and synthesis was not started.
C10_Witness ==
    /\ doc.failedAt = "script"
    /\ doc.calls = <<"acquire", "extract", "mkdir", "script">>

\* The steps of process_paper that call an external provider: content
\* understanding (extract), script generation, speech synthesis.
ProviderSteps == {"extract", "script", "synth"}

\* C11: Scenario D, cost avoidance.  When acquisition received a payload that
\* does not begin with the PDF magic, the document fails at acquisition and no
\* provider step (extraction, script generation, synthesis) is ever called for
\* it: on the arXiv path the candidate is failed with acquisition as its only
\* step; on the upload path a submission whose file was downloaded, with the
\* magic or without it, never enters a provider step and its processing
\* returns False.
C11_ScenarioD ==
    /\ (doc.payload # NoPayload /\ ~StartsWithMagic(doc.payload))
          => /\ doc.calls = <<"acquire">>
             /\ doc.failedAt = "acquire"
             /\ doc.outcome = "failed"
             /\ ~doc.uploaded /\ ~doc.inserted
    /\ udoc.dlOk
          => /\ Range(udoc.calls) \cap ProviderSteps = {}
             /\ pc \in {"process_paper", "handler"} \/ udoc.ret = "False"

\* C11 witness: a payload without the magic was received on the arXiv path
\* and the candidate was failed at acquisition.
C11_Witness ==
    /\ doc.payload.words = <<"<htm", "l>..">>
    /\ doc.outcome = "failed"

\* C13: every submission whose status is failed carries a non-empty
\* error_message (the update that wrote failed also wrote an error string,
\* whatever the text of the error that was raised).
C13_FailedHasMessage ==
    \A u \in UploadIds :
        pending_uploads[u].status = "failed"
            => pending_uploads[u].error_message \notin {NULL, ""}

\* C15: the blob upsert is idempotent.  When the same upload function is
\* called twice in a row on the same path with the same bytes, and the storage
\* service itself does not fail, both calls succeed, both return the same
\* public URL, and the path then holds exactly those bytes, whether or not an
\* object was at the path before the first call.
C15_UpsertIdempotent ==
    (svc.prev.valid /\ ~svc.fault /\ ~svc.prev.fault)
        => /\ svc.prev.ok /\ svc.ok
           /\ svc.url = svc.prev.url
           /\ svc.url = get_public_url(svc.path)
           /\ storage[svc.path] = svc.data

\* C15 witness: upload_to_storage ran twice on a path that held no object
\* before the first call, and both calls returned.
C15_Witness ==
    /\ svc.op = "upload_to_storage"
    /\ svc.prev.valid /\ ~svc.prev.before /\ svc.before
    /\ svc.prev.ok /\ svc.ok

\* C12: a submission whose status is completed carries the identifier of the
\* papers record inserted for it (the update that wrote completed also wrote
\* that identifier into the row).
C12_CompletedHasRecordId ==
    \A u \in UploadIds :
        pending_uploads[u].status = "completed"
            => pending_uploads[u].paper_id # NULL

\* Worker w has set submission u to processing and is in the pipeline for it.
Claimed(w, u) ==
    /\ workers[w].pc \in {"download", "process_paper"}
    /\ WCur(w) = u

\* C14: claiming a submission is not atomic.  A worker's update to processing
\* does not look at the row's current status: whenever the update returns, the
\* row is processing afterwards and the worker goes on to the pipeline for it,
\* whatever the status was (pending, processing under the other worker, or
\* already failed by it).  Nothing keeps two workers from claiming one row.
C14_ClaimNotAtomic ==
    [][\A w \in Workers :
          (workers[w].pc = "set_processing" /\ workers'[w].pc = "download")
              => /\ pending_uploads'[WCur(w)].status = "processing"
                 /\ Claimed(w, WCur(w))']_vars

\* C14 witness: both workers fetched the same pending submission, both set it
\* to processing, and both are in the pipeline for it at the same time.
C14_Witness ==
    \E u \in UploadIds :
        /\ Claimed("w1", u) /\ Claimed("w2", u)
        /\ Len(SelectSeq(statusWrites[u], LAMBDA x : x = "processing")) = 2

\* C16: no automatic retry.  Within a run every step of the pipeline is called
\* at most once for a document, every candidate and every submission of the
\* page is reached at most once (the loops only move forward), and a row of
\* pending_uploads gets each status written at most once; after a failure the
\* step that failed is the last one called for that document.
C16_NoRetry ==
    /\ Distinct(doc.calls)
    /\ Distinct(cands) /\ Len(log) <= Len(cands)
    /\ log # <<>> => doc.index = Len(log) /\ doc.id = cands[Len(log)]
    /\ doc.failedAt # "none" => doc.calls[Len(doc.calls)] = doc.failedAt
    /\ doc.outcome = "failed" => pc \notin Range(process_paper_steps) \cup {"persist"}
    /\ Distinct(page) /\ Len(ulog) <= Len(page)
    /\ ulog # <<>> => udoc.id = page[Len(ulog)]
    /\ Distinct(udoc.calls)
    /\ \A u \in UploadIds : Distinct(statusWrites[u])

\* C16 witness: a candidate failed at extraction after acquisition returned,
\* the loop went on to the next candidate, and extraction was called once.
C16_Witness ==
    /\ Len(log) = 2 /\ log[1] = "failed"
    /\ doc.index = 2 /\ doc.failedAt = "extract"
    /\ doc.calls = <<"acquire", "extract">>

IsSuccess(o) == o = "success"

\* C17: one document per run.  A run of main_workflow inserts at most one
\* papers record: at most one candidate of the run is a success, it is the last
\* one the loop reached and the run is over with it; every candidate before
\* the last was skipped or failed, and a run that ended without a success
\* reached every candidate of the list.
C17_OneDocumentPerRun ==
    /\ Len(SelectSeq(log, IsSuccess)) <= 1
    /\ \A k \in 1..Len(log) :
          /\ k < Len(log) => log[k] \in {"skipped", "failed"}
          /\ log[k] = "success" => pc = "done"
    /\ doc.inserted => doc.outcome = "success"
    /\ (run = "main" /\ pc = "done" /\ cands # <<>> /\ SelectSeq(log, IsSuccess) = <<>>)
          => Len(log) = Len(cands)

\* C17 witness: a run is over in which the first candidate was skipped as a
\* duplicate and the second failed: neither stopped the loop, nothing was
\* inserted.
C17_Witness ==
    /\ run = "main" /\ pc = "done"
    /\ log = <<"skipped", "failed">>
    /\ ~doc.inserted

\* C18: the batch page.  One call of process_pending_uploads(max_count) works
\* on a page of at most max_count submissions, oldest first (ascending
\* created_at) and without repeats; a pending submission left out of the page
\* is newer than all of it and the page is full; the submissions are taken in
\* page order, each one once, each was pending when the batch picked it up,
\* and when the batch is over every one of the page has been processed.
C18_BatchPage ==
    run = "upload" =>
        /\ Len(page) <= max_count
        /\ \A a, b \in 1..Len(page) : a < b => page[a] < page[b]
        /\ page # <<>> =>
              \A u \in UploadIds \ Range(page) :
                  pending_uploads[u].status = "pending"
                      => Len(page) = max_count /\ u > page[Len(page)]
        /\ Len(ulog) <= Len(page)
        /\ ulog # <<>> => /\ udoc.id = page[Len(ulog)]
                          /\ udoc.statusAtPickup = "pending"
        /\ \A k \in 1..Len(ulog) : k < Len(ulog) => ulog[k] # "none"
        /\ pc = "done" => /\ Len(ulog) = Len(page)
                          /\ \A k \in 1..Len(ulog) : ulog[k] # "none"

\* C18 witness: a batch called with max_count 1 is over, having processed the
\* oldest pending submission, while a newer one is still pending.
C18_Witness ==
    /\ run = "upload" /\ pc = "done"
    /\ max_count = 1 /\ Len(page) = 1 /\ Len(ulog) = 1
    /\ \E u \in UploadIds : u > page[1] /\ pending_uploads[u].status = "pending"

\* C19: fatal per run.  When the client could not be built at startup the run
\* is over at once: in every state from that failure until the next run starts
\* the run is at its end, no candidate list and no page was fetched, no
\* candidate or submission was taken in hand, no step was called, and no step
\* of the run has changed storage, papers or pending_uploads.
C19_FatalPerRun ==
    [][client' = "failed"
          => /\ pc' = "done"
             /\ cands' = <<>> /\ log' = <<>> /\ doc' = NoDoc
             /\ page' = <<>> /\ ulog' = <<>> /\ udoc' = NoUDoc
             /\ results' = NoResults
             /\ UNCHANGED dbVars]_vars

\* C19 witness: an upload batch left a submission failed, and the
\* main_workflow run started after it could not build its client.
C19_Witness ==
    /\ run = "main" /\ client = "failed" /\ pc = "done"
    /\ \E u \in UploadIds : pending_uploads[u].status = "failed"

\* The steps of process_paper that only write local debug copies.
LocalSteps == {"mkdir", "save"}

\* C20: local debug dumps are best-effort.  A failure creating the local
\* output folder or writing the local copies of the info JSON and the script
\* does not fail the candidate: the flow goes on past it.
C20_LocalDumpsBestEffort ==
    doc.failedAt \in LocalSteps => doc.outcome # "failed"

\* C21: processing comes before the pipeline work.  Whenever the batch is at
\* the download or at the process_paper call for a submission, or has
\* downloaded its file or entered a stage for it, the update to processing for
\* that submission returned before and its row is no longer pending.
C21_ProcessingBeforeWork ==
    (run = "upload" /\ udoc.id # 0
       /\ (pc \in {"download", "process_paper"} \/ udoc.dlOk
             \/ udoc.payload # NoPayload \/ udoc.calls # <<>>))
        => /\ udoc.updOk
           /\ pending_uploads[udoc.id].status # "pending"
           /\ "processing" \in Range(statusWrites[udoc.id])

\* C21 witness: the file of a submission has been downloaded and the batch is
\* at the process_paper call, the row being processing.
C21_Witness ==
    /\ run = "upload" /\ pc = "process_paper" /\ udoc.dlOk
    /\ pending_uploads[udoc.id].status = "processing"

ValidPayload(p) == p.size > 0 /\ p.size <= max_file_size /\ StartsWithMagic(p)

\* C23: acquisition validation.  A payload that acquisition handed on (the
\* fetch by URL returned it to process_paper, or the download of an uploaded
\* file returned it to process_single_upload) is not empty, not larger than
\* 100 MB and begins with the magic; every other payload failed the document
\* at acquisition.
C23_AcquisitionValidation ==
    /\ (doc.payload # NoPayload /\ doc.failedAt # "acquire")
          => ValidPayload(doc.payload)
    /\ (udoc.payload # NoPayload /\ udoc.dlOk)
          => ValidPayload(udoc.payload)

\* C24: extraction is all-or-nothing.  A PaperInfo that extract_paper_info
\* returned (the document went on past extraction with it) has every textual
\* field non-empty.
C24_ExtractionAllOrNothing ==
    doc.info # NoInfo => \A f \in TextFields : doc.info[f] # ""

\* The batch is working on submission u: between its update to processing and
\* the end of its except block.
InHand(u) ==
    /\ run = "upload" /\ udoc.id = u
    /\ pc \in {"download", "process_paper", "handler"}

\* C25: no automatic requeueing.  Over any number of batches, a fetch never
\* puts on the page a submission that is processing, completed or failed, no
\* batch takes in hand a submission that is not pending, and a submission left
\* in processing that no batch is working on stays in processing.
C25_NoRequeueing ==
    [][\A u \in UploadIds :
          /\ (pc = "fetch" /\ pending_uploads[u].status # "pending")
                => u \notin Range(page')
          /\ (pc = "set_processing" /\ udoc'.id = u)
                => pending_uploads[u].status = "pending"
          /\ (pending_uploads[u].status = "processing" /\ ~InHand(u))
                => pending_uploads'[u].status = "processing"]_vars

\* C25 witness: a later batch has fetched its page and is working on it while
\* an older submission, left in processing by an earlier batch, is not on it.
C25_Witness ==
    /\ run = "upload" /\ pc = "download"
    /\ \E u \in UploadIds :
          /\ u < udoc.id /\ u \notin Range(page)
          /\ pending_uploads[u].status = "processing"

\* C26: a papers row derived from a submission exists if and only if the
\* submission is completed (whenever no call is in progress).
C26_RowIffCompleted ==
    \A u \in UploadIds :
        upload_papers[u] > 0 <=> pending_uploads[u].status = "completed"

\* C27 as stated: when process_pending_uploads has returned, every submission
\* of the page is completed or failed.
C27_PageAllTerminal ==
    (run = "upload" /\ pc = "done")
        => \A u \in Range(page) : pending_uploads[u].status \in Terminal

\* C27, amended: a submission the batch is done with is failed when the update
\* to failed made by the except block went through; when that update raised, it
\* is left as the last update that went through left it (processing, or
\* pending when the update to processing raised as well).  When the batch has
\* returned, a submission of the page that is not terminal is one whose update
\* to failed raised.
C27_TerminalWhenUpdateWentThrough ==
    /\ (run = "upload" /\ udoc.ret = "False")
          => pending_uploads[udoc.id].status =
                 IF udoc.failedWritten THEN "failed"
                 ELSE IF udoc.updOk THEN "processing" ELSE "pending"
    /\ (run = "upload" /\ pc = "done")
          => \A u \in Range(page) :
                \/ pending_uploads[u].status \in Terminal
                \/ Terminal \cap Range(statusWrites[u]) = {}

\* C27 witness: a batch of two submissions has returned; the update to failed
\* went through for one and raised for the other, which is left in processing.
C27_Witness ==
    /\ run = "upload" /\ pc = "done" /\ Len(page) = 2
    /\ pending_uploads[page[1]].status = "failed"
    /\ pending_uploads[page[2]].status = "processing"
    /\ ~udoc.failedWritten

\* C28: artifact before record.  A step that inserts a papers row is the step
\* of main_workflow in which upload_to_storage returned for the same document:
\* the object is in the bucket and the audio_url of the record is the public URL
\* that call returned; a candidate leaving lines 120-183 without an upload that
\* returned leaves papers as it was.  On the upload path nothing is uploaded and
\* nothing is inserted.
C28_ArtifactBeforeRecord ==
    [][ /\ papers' # papers =>
              /\ run = "main" /\ pc = "persist"
              /\ doc'.inserted /\ doc'.uploaded
              /\ storage'[<<"", doc.id>>] # NULL
              /\ doc'.audio_url = get_public_url(<<"", doc.id>>)
              /\ \A id \in ArxivIds \ {doc.id} : papers'[id] = papers[id]
        /\ (run = "main" /\ pc = "persist" /\ ~doc'.uploaded) =>
              /\ papers' = papers
              /\ ~doc'.inserted
        /\ (run = "upload" /\ run' = "upload") =>
              /\ papers' = papers /\ upload_papers' = upload_papers
              /\ storage' = storage
      ]_vars

\* C28 witness: a candidate passed the four stages and the local dumps, the
\* packaging statement of line 138 raised, nothing was uploaded and no row was
\* inserted for it.
C28_Witness ==
    /\ run = "main" /\ Handled
    /\ doc.calls = process_paper_steps /\ doc.failedAt = "none"
    /\ doc.outcome = "failed" /\ ~doc.fault
    /\ ~doc.uploaded /\ ~doc.inserted /\ doc.audio_url = NULL
    /\ papers[doc.id] = 0 /\ storage[<<"", doc.id>>] = NULL

\* C29: the db_records built for two submissions with distinct ids have
\* distinct arxiv_ids.
C29_RecordIdUnique ==
    \A a, b \in db_records : a.upload_id # b.upload_id => a.arxiv_id # b.arxiv_id

\* The submissions of the page that process_single_upload returned v for.
Returned(v) == {k \in 1..Len(ulog) : ulog[k] = v}

\* C30: batch accounting.  process_single_upload returns True or False and never
\* raises, and True only with the papers row inserted and the status completed;
\* total is the length of the page, success and failed count the True and the
\* False returns; when the batch has returned total = success + failed, success
\* is the number of submissions of the page that ended completed and failed the
\* number that did not.
C30_BatchAccounting ==
    run = "upload" =>
      /\ \A k \in 1..Len(ulog) : ulog[k] \in {"none", "True", "False"}
      /\ udoc.ret \in {"none", "True", "False"}
      /\ udoc.ret = "True" =>
            udoc.inserted /\ pending_uploads[udoc.id].status = "completed"
      /\ results.total = Len(page)
      /\ results.success = Cardinality(Returned("True"))
      /\ results.failed = Cardinality(Returned("False"))
      /\ pc = "done" =>
            /\ results.total = results.success + results.failed
            /\ results.success = Cardinality({k \in 1..Len(page) :
                                     pending_uploads[page[k]].status = "completed"})
            /\ results.failed = Cardinality({k \in 1..Len(page) :
                                     pending_uploads[page[k]].status # "completed"})

\* C30 witness: a batch of two submissions has returned its statistics, both
\* counted as failures: one ended failed, the other was left in processing.
C30_Witness ==
    /\ run = "upload" /\ pc = "done"
    /\ results = [total |-> 2, success |-> 0, failed |-> 2]
    /\ pending_uploads[page[1]].status = "processing"
    /\ pending_uploads[page[2]].status = "failed"

====
